---- MODULE Spec2Model ----
\* A state-machine model of build_db.py: tag discovery and ordering, range
\* partitioning, the parallel diff extraction, the relational store and its
\* views, and the backport correlation.
EXTENDS Naturals, Integers, Sequences, FiniteSets, TLC

VARIABLES
    call,         \* the function being run on its own: name, argument, returned value (NoCall inside main)
    branches,     \* main's list `branches` (from branches.conf)
    ksource,      \* the kernel-source repository: per branch, its ref, rpm/config.sh and patches.suse/ blobs
    pc,           \* position of the coordinating process in main()
    err,          \* the exception that ended the run ("" while none)
    reported,     \* branches written to stderr by get_tags_from_ksource_tree
    tags,         \* main's dict `tags`: sequence of <<branch, SRCVERSION>> in insertion order
    pure_tags,    \* main's list `pure_tags`
    uniq_tags,    \* main's list `uniq_tags`
    tag_pairs,    \* main's list `tag_pairs`
    t_tags,       \* table tags (names)
    t_branches,   \* table branches: rows [name, tag_id]
    t_commits,    \* table commits (names)
    t_files,      \* table files (names)
    t_changes,    \* table changes: rows [commit_id, score, from_id, to_id, tag_id]
    t_backports,  \* table backports: sequence of rows [commit_id, branch_id]
    status,       \* per submitted future: "pending", "done", "listing_failed", "store_failed"
    collected,    \* futures already yielded by as_completed
    commits_per_branch, \* main's dict of that name, as a function branch -> list of hashes
    commits,      \* main's set `commits` read by get_commits()
    bidx          \* index of the next item of commits_per_branch.items()

vars == <<call, branches, ksource, pc, err, reported, tags, pure_tags, uniq_tags, tag_pairs,
          t_tags, t_branches, t_commits, t_files, t_changes, t_backports,
          status, collected, commits_per_branch, commits, bidx>>

\* ---------------------------------------------------------------- bounds

MaxSortLen == 4
MaxBatch == 2
MaxCommits == 2
MaxBranches == 2
HeadPos == 5

\* ---------------------------------------------------------------- constants

NULL == "NULL"
BIG_BANG == "1da177e4c3f41524e886b7f1b8a0c1fc7321cac2"
BIG_BANG_12 == "1da177e4c3f4"
MASTER == "master"

\* ---------------------------------------------------------------- strings

\* Version strings are sequences of one-character strings, so that splitting and
\* integer parsing are computed; Str turns one into a name of the store.
RECURSIVE Str(_)
Str(s) == IF s = <<>> THEN "" ELSE s[1] \o Str(Tail(s))

Digits == <<"0", "1", "2", "3", "4", "5", "6", "7", "8", "9">>
IsDigit(c) == \E i \in 1..Len(Digits) : Digits[i] = c
DigitVal(c) == (CHOOSE i \in 1..Len(Digits) : Digits[i] = c) - 1

\* int(s) raises ValueError unless s is a non-empty run of digits
IsInt(s) == Len(s) > 0 /\ \A i \in 1..Len(s) : IsDigit(s[i])
RECURSIVE IntOf(_)
IntOf(s) == IF s = <<>> THEN 0
            ELSE 10 * IntOf(SubSeq(s, 1, Len(s) - 1)) + DigitVal(s[Len(s)])

\* re.split(r'[.-]', s)
RECURSIVE Split(_)
Split(s) ==
    IF \E i \in 1..Len(s) : s[i] \in {".", "-"}
    THEN LET k == CHOOSE i \in 1..Len(s) :
                      /\ s[i] \in {".", "-"}
                      /\ \A j \in 1..(i - 1) : s[j] \notin {".", "-"}
         IN  <<SubSeq(s, 1, k - 1)>> \o Split(SubSeq(s, k + 1, Len(s)))
    ELSE <<s>>

StartsWithRc(p) == Len(p) >= 2 /\ p[1] = "r" /\ p[2] = "c"

\* key_function(s): [ok |-> FALSE] stands for the ValueError of int()
key_function(s) ==
    LET sp   == Split(s)
        arr  == SubSeq(sp, 1, IF Len(sp) < 3 THEN Len(sp) ELSE 3)
        p3   == IF StartsWithRc(arr[3]) THEN SubSeq(arr[3], 3, Len(arr[3])) ELSE arr[3]
        good == /\ IsInt(arr[1])
                /\ Len(arr) > 1 => IsInt(arr[2])
                /\ Len(arr) > 2 => IsInt(p3)
    IN  IF ~good THEN [ok |-> FALSE, key |-> <<>>]
        ELSE [ok |-> TRUE,
              key |-> [i \in 1..Len(arr) |->
                          IF i = 3 THEN IntOf(p3) ELSE IntOf(arr[i])]]

\* Python's list comparison a < b on lists of ints
ListLess(a, b) ==
    \/ /\ Len(a) < Len(b)
       /\ \A i \in 1..Len(a) : a[i] = b[i]
    \/ \E k \in 1..Len(a) :
          /\ k <= Len(b)
          /\ a[k] < b[k]
          /\ \A i \in 1..(k - 1) : a[i] = b[i]

\* sorted(l, key=key_function): stable, so an element goes after every element
\* already placed whose key is not greater
RECURSIVE InsertSorted(_, _)
InsertSorted(x, l) ==
    IF l = <<>> THEN <<x>>
    ELSE IF ListLess(key_function(x).key, key_function(l[1]).key)
         THEN <<x>> \o l
         ELSE <<l[1]>> \o InsertSorted(x, Tail(l))

\* an element inserted later must land after equal keys placed earlier:
\* elements are inserted left to right
RECURSIVE SortedFrom(_, _)
SortedFrom(acc, rest) ==
    IF rest = <<>> THEN acc
    ELSE SortedFrom(InsertSorted(rest[1], acc), Tail(rest))

sorted(l) == SortedFrom(<<>>, l)

SortRaises(l) == \E i \in 1..Len(l) : ~key_function(l[i]).ok

\* [ t for t, _ in groupby(l) ]
RECURSIVE groupby(_)
groupby(l) ==
    IF Len(l) <= 1 THEN l
    ELSE IF l[1] = l[2] THEN groupby(Tail(l))
         ELSE <<l[1]>> \o groupby(Tail(l))

\* ---------------------------------------------------------------- the two repositories

\* The mainline history is linear: commit i is the i-th commit after the root
\* commit BIG_BANG (commit 0); master is at HeadPos.
Hash(i) == IF i = 0 THEN BIG_BANG ELSE "c" \o ToString(i)
Abbrev(i) == IF i = 0 THEN BIG_BANG_12 ELSE "a" \o ToString(i)
Commits == 0..HeadPos

\* lrepo.revparse_single(x).id: the full hash of an abbreviation or of a full
\* hash; [ok |-> FALSE] stands for the exception of an unknown object
revparse_single(x) ==
    IF \E i \in Commits : x \in {Abbrev(i), Hash(i)}
    THEN [ok |-> TRUE, id |-> Hash(CHOOSE i \in Commits : x \in {Abbrev(i), Hash(i)})]
    ELSE [ok |-> FALSE, id |-> NULL]

\* a line ":mode mode sha sha STATUS\tpath[\tpath]" of git log --raw, as the
\* list rr that get_renames_with_score_or_none splits it into
Raw(st, p1, p2) ==
    [kind |-> "raw", st |-> st, p1 |-> p1, p2 |-> p2, blacklisted |-> FALSE]
Hdr(i) == [kind |-> "hdr", abbrev |-> Abbrev(i)]
EmptyLine == [kind |-> "empty"]
BLACKLIST == "Dell Inc.,XPS 13 9300"

\* the paths of the tree of BIG_BANG
RootTree == <<"f0">>

RawLines(i) ==
    CASE i = 0 -> <<Raw(<<"A">>, "f0", NULL)>>
      [] i = 1 -> <<Raw(<<"A">>, "f1", NULL)>>
      [] i = 2 -> <<Raw(<<"M">>, "f0", NULL), Raw(<<"R", "0", "9", "0">>, "f1", "f2")>>
      [] i = 3 -> <<Raw(<<"D">>, "f0", NULL)>>
      [] i = 4 -> <<Raw(<<"M">>, "f2", NULL),
                    [Raw(<<"A">>, BLACKLIST, NULL) EXCEPT !.blacklisted = TRUE]>>
      [] i = 5 -> <<Raw(<<"A">>, "f3", NULL)>>
      [] OTHER -> <<Raw(<<"M">>, "f3", NULL)>>

\* where each release tag points in the mainline history
V53 == <<"5", ".", "3">>
V531 == <<"5", ".", "3", ".", "1">>
V53rc1 == <<"5", ".", "3", "-", "r", "c", "1">>
V510rc1 == <<"5", ".", "1", "0", "-", "r", "c", "1">>
V510 == <<"5", ".", "1", "0">>

TagPos(t) ==
    CASE t = "v5.3" -> 1
      [] t = "v5.10-rc1" -> 2
      [] t = "v5.10" -> 3
      [] OTHER -> HeadPos

\* stdout of `git log --oneline --raw --no-merges [begin..]end`, split at "\n":
\* newest commit first, the commits reachable from end and not from begin
RECURSIVE LogDown(_, _)
LogDown(hi, lo) ==
    IF hi < lo THEN <<>>
    ELSE <<Hdr(hi)>> \o RawLines(hi) \o LogDown(hi - 1, lo)

GitLog(begin, end) ==
    (IF begin = "" THEN LogDown(TagPos(end), 0)
     ELSE LogDown(TagPos(end), TagPos(begin) + 1)) \o <<EmptyLine>>

\* ---------------------------------------------------------------- the store

\* (select id from <table> where name = ?): a row is identified by its name
Lookup(table, name) == IF name \in table THEN name ELSE NULL

SeqToSet(l) == {l[i] : i \in 1..Len(l)}
NoDup(l) == \A i, j \in 1..Len(l) : l[i] = l[j] => i = j

\* insert or ignore in place of the plain insert: a stored name is let through
UniqueInsertRaises_Ignore(table, many) ==
    \/ ~NoDup(many)
    \/ \E i \in 1..Len(many) : many[i] = NULL

\* insert into tags/commits (name): name is UNIQUE NOT NULL, so the batch
\* raises IntegrityError (and is rolled back whole) on a repeated name
UniqueInsertRaises(table, many) ==
    \/ ~NoDup(many)
    \/ \E i \in 1..Len(many) : many[i] \in table \/ many[i] = NULL

\* insert or ignore into files (name): rows breaking UNIQUE or NOT NULL are skipped
store_files_into_db(table, many) == table \cup (many \ {NULL})

\* the row that store_changes_into_db's insert builds from a tuple of `many`
ChangeRow(m, cs, fs, ts) ==
    [commit_id |-> Lookup(cs, m.commit), score |-> m.score,
     from_id |-> Lookup(fs, m.from), to_id |-> Lookup(fs, m.to),
     tag_id |-> Lookup(ts, m.tag)]

\* changes.commit_id is NOT NULL
ChangesRaise(many, cs) == \E i \in 1..Len(many) : Lookup(cs, many[i].commit) = NULL

\* a variant of store_changes_into_db that keeps the renames only
store_changes_into_db_RenamesOnly(table, many, cs, fs, ts) ==
    table \cup {ChangeRow(many[i], cs, fs, ts) :
                   i \in {j \in 1..Len(many) : many[j].score # <<>>}}

store_changes_into_db(table, many, cs, fs, ts) ==
    table \cup {ChangeRow(many[i], cs, fs, ts) : i \in 1..Len(many)}

\* the row that store_backports_into_db's insert builds
BackportRow(m, cs, bs) ==
    [commit_id |-> Lookup(cs, m[1]),
     branch_id |-> Lookup({b.name : b \in bs}, m[2])]

\* backports.commit_id and backports.branch_id are NOT NULL
BackportsRaise(many, cs, bs) ==
    \E i \in 1..Len(many) :
        NULL \in {BackportRow(many[i], cs, bs).commit_id,
                  BackportRow(many[i], cs, bs).branch_id}

\* ---------------------------------------------------------------- the views

base_added ==
    {[branch |-> b.name, file |-> ch.to_id, sha |-> ch.commit_id, source |-> "base"] :
        <<ch, b>> \in {x \in t_changes \X t_branches :
            /\ x[1].to_id \in t_files /\ x[1].from_id = NULL
            /\ x[1].commit_id \in t_commits
            /\ x[1].tag_id \in t_tags /\ x[2].tag_id = x[1].tag_id}}

base_renamed ==
    {[branch |-> b.name, file |-> ch.from_id, new_file |-> ch.to_id,
      sha |-> ch.commit_id, source |-> "base"] :
        <<ch, b>> \in {x \in t_changes \X t_branches :
            /\ x[1].to_id # NULL /\ x[1].from_id \in t_files /\ x[1].to_id \in t_files
            /\ x[1].commit_id \in t_commits
            /\ x[1].tag_id \in t_tags /\ x[2].tag_id = x[1].tag_id}}

base_removed ==
    {[branch |-> b.name, file |-> ch.from_id, sha |-> ch.commit_id, source |-> "base"] :
        <<ch, b>> \in {x \in t_changes \X t_branches :
            /\ x[1].to_id = NULL /\ x[1].from_id \in t_files
            /\ x[1].commit_id \in t_commits
            /\ x[1].tag_id \in t_tags /\ x[2].tag_id = x[1].tag_id}}

\* backports bp JOIN branches b JOIN changes ch JOIN commits ci
BackportJoin ==
    {x \in SeqToSet(t_backports) \X t_changes :
        /\ x[1].branch_id \in {b.name : b \in t_branches}
        /\ x[2].commit_id = x[1].commit_id
        /\ x[2].commit_id \in t_commits}

backports_added ==
    {[branch |-> bp.branch_id, file |-> ch.from_id, sha |-> ch.commit_id,
      source |-> "backport"] :
        <<bp, ch>> \in {x \in BackportJoin :
            x[2].from_id \in t_files /\ x[2].to_id = NULL}}

backports_renamed ==
    {[branch |-> bp.branch_id, file |-> ch.from_id, new_file |-> ch.to_id,
      sha |-> ch.commit_id, source |-> "backport"] :
        <<bp, ch>> \in {x \in BackportJoin :
            x[2].from_id \in t_files /\ x[2].to_id # NULL /\ x[2].to_id \in t_files}}

backports_removed ==
    {[branch |-> bp.branch_id, file |-> ch.from_id, sha |-> ch.commit_id,
      source |-> "backport"] :
        <<bp, ch>> \in {x \in BackportJoin :
            x[2].from_id \in t_files /\ x[2].to_id = NULL}}

added == base_added \cup backports_added
renamed == base_renamed \cup backports_renamed
removed == base_removed \cup backports_removed

\* ---------------------------------------------------------------- compare two references

\* a variant of RowsOf that drops the D lines
RowsOf_NoDelete(l, hash, end) ==
    CASE l.st[1] = "R" ->
            <<[commit |-> hash, score |-> <<IntOf(Tail(l.st))>>,
               from |-> l.p1, to |-> l.p2, tag |-> end]>>
      [] l.st[1] = "A" ->
            <<[commit |-> hash, score |-> <<>>, from |-> NULL, to |-> l.p1, tag |-> end]>>
      [] OTHER -> <<>>

\* get_renames_with_score_or_none(l) and the tuple between() appends for it
\* (none for a status other than R, A, D). A score is an optional integer:
\* <<>> for None, <<n>> for int(r[0][1:]).
RowsOf(l, hash, end) ==
    CASE l.st[1] = "R" ->
            <<[commit |-> hash, score |-> <<IntOf(Tail(l.st))>>,
               from |-> l.p1, to |-> l.p2, tag |-> end]>>
      [] l.st[1] = "A" ->
            <<[commit |-> hash, score |-> <<>>, from |-> NULL, to |-> l.p1, tag |-> end]>>
      [] l.st[1] = "D" ->
            <<[commit |-> hash, score |-> <<>>, from |-> l.p1, to |-> NULL, tag |-> end]>>
      [] OTHER -> <<>>

\* a variant of IsBoundary that stops at the end of the listing only
IsBoundary_EmptyOnly(l) == l.kind = "empty"

\* line 206: the loop ends at an empty line or at the header of BIG_BANG
IsBoundary(l) ==
    \/ l.kind = "empty"
    \/ l.kind = "hdr" /\ l.abbrev = BIG_BANG_12

\* get_hash(l, repo)
get_hash(l) == revparse_single(l.abbrev).id

\* the loop of between() over the lines of the listing
RECURSIVE ParseLines(_, _, _, _)
ParseLines(ls, hash, many, end) ==
    IF ls = <<>> \/ IsBoundary(ls[1]) THEN many
    ELSE IF ls[1].kind = "raw" /\ ls[1].blacklisted
         THEN ParseLines(Tail(ls), hash, many, end)
    ELSE IF ls[1].kind = "raw"
         THEN ParseLines(Tail(ls), hash, many \o RowsOf(ls[1], hash, end), end)
    ELSE ParseLines(Tail(ls), get_hash(ls[1]), many, end)

\* `many` of between(begin, end, lpath)
ManyOf(begin, end) == ParseLines(GitLog(begin, end), "None", <<>>, end)

\* a variant of CommitsOf that keeps the commits of renames only
CommitsOf_RenamesOnly(many) ==
    {many[i].commit : i \in {j \in 1..Len(many) : many[j].score # <<>>}}

\* `commits` of between(): the commits that changed something
CommitsOf(many) == {many[i].commit : i \in 1..Len(many)}

\* `files` of between(): the deleted and renamed-from paths, and every `to`
\* (None included)
FilesOf(many) ==
    {many[i].from : i \in {j \in 1..Len(many) : many[j].from # NULL}}
        \cup {many[i].to : i \in 1..Len(many)}

\* ---------------------------------------------------------------- get tags and branches

\* extract_srcversion(content): a line of rpm/config.sh is KEY=value
RECURSIVE extract_srcversion(_)
extract_srcversion(content) ==
    IF content = <<>> THEN <<>>
    ELSE IF content[1].key = "SRCVERSION" THEN content[1].value
    ELSE extract_srcversion(Tail(content))

\* the branches whose lookup raises KeyError (no ref, or no rpm/config.sh)
LookupFails(ks, b) == ~ks[b].ref \/ ~ks[b].has_config

\* get_tags_from_ksource_tree(branches, repo): the dict ret, in insertion order
RECURSIVE get_tags_from_ksource_tree(_, _)
get_tags_from_ksource_tree(bs, ks) ==
    IF bs = <<>> THEN <<>>
    ELSE (IF LookupFails(ks, bs[1]) THEN <<>>
          ELSE << <<bs[1], extract_srcversion(ks[bs[1]].config)>> >>)
         \o get_tags_from_ksource_tree(Tail(bs), ks)

\* a variant of get_hash_or_nothing that goes on to the next matching line
\* when a reference does not resolve
RECURSIVE get_hash_or_nothing_Skip(_)
get_hash_or_nothing_Skip(fc) ==
    IF fc = <<>> THEN NULL
    ELSE IF fc[1].kind = "ref" /\ revparse_single(fc[1].id).ok
         THEN revparse_single(fc[1].id).id
    ELSE get_hash_or_nothing_Skip(Tail(fc))

\* get_hash_or_nothing(fc, lrepo): NULL stands for None
RECURSIVE get_hash_or_nothing(_)
get_hash_or_nothing(fc) ==
    IF fc = <<>> THEN NULL
    ELSE IF fc[1].kind = "ref"
         THEN (IF revparse_single(fc[1].id).ok THEN revparse_single(fc[1].id).id ELSE NULL)
    ELSE get_hash_or_nothing(Tail(fc))

\* the list ret[b] of get_commits_per_branch for one branch
RECURSIVE HashesOf(_)
HashesOf(blobs) ==
    IF blobs = <<>> THEN <<>>
    ELSE (IF get_hash_or_nothing(blobs[1]) # NULL
          THEN <<get_hash_or_nothing(blobs[1])>> ELSE <<>>)
         \o HashesOf(Tail(blobs))

\* get_commits_per_branch(branches, krepo, lrepo): a branch whose ref is
\* missing raises inside the try and keeps the empty list
get_commits_per_branch(bs, ks) ==
    [b \in SeqToSet(bs) |-> IF ks[b].ref THEN HashesOf(ks[b].patches) ELSE <<>>]

\* prepare_tags_for_parallel_partition(uniq_tags)
prepare_tags_for_parallel_partition(ut) ==
    << <<"", ut[1]>> >> \o [i \in 1..(Len(ut) - 1) |-> <<ut[i], ut[i + 1]>>]

\* ---------------------------------------------------------------- inputs

BranchName(i) == "b" \o ToString(i)

Line(key, value) == [key |-> key, value |-> value]
Text == [kind |-> "text"]
Ref(x) == [kind |-> "ref", id |-> x]

\* rpm/config.sh with and without a SRCVERSION= line
ConfigOf(v) == <<Line("VARIANT", <<>>), Line("SRCVERSION", v)>>
NoKeyConfig == <<Line("VARIANT", <<>>)>>

PipeVersions == {V53, V510rc1, V510}

\* patches.suse/ of a branch: lists of blobs, a blob a list of lines
PatchSets ==
    { <<>>,
      << <<Text, Ref(Hash(3))>> >>,
      << <<Ref("0123456789"), Ref(Abbrev(1))>>, <<Text>>,
         <<Ref(Abbrev(1)), Ref(Abbrev(3))>>, <<Ref(Abbrev(4))>> >> }

NoRefTree == [ref |-> FALSE, has_config |-> FALSE, config |-> <<>>, patches |-> <<>>]

TreeChoices ==
    {NoRefTree}
    \cup {[ref |-> TRUE, has_config |-> FALSE, config |-> <<>>, patches |-> p] :
             p \in PatchSets}
    \cup {[ref |-> TRUE, has_config |-> TRUE, config |-> c, patches |-> p] :
             c \in {NoKeyConfig} \cup {ConfigOf(v) : v \in PipeVersions},
             p \in PatchSets}

\* ---------------------------------------------------------------- main function

\* no store function has been called on its own
NoCall == [fn |-> "", arg |-> <<>>, ret |-> <<>>]

Idle ==
    /\ call = NoCall
    /\ err = ""
    /\ reported = {}
    /\ pure_tags = <<>>
    /\ uniq_tags = <<>>
    /\ tag_pairs = <<>>
    /\ t_tags = {}
    /\ t_branches = {}
    /\ t_commits = {}
    /\ t_files = {}
    /\ t_changes = {}
    /\ t_backports = <<>>
    /\ status = <<>>
    /\ collected = {}
    /\ commits_per_branch = <<>>
    /\ commits = {}
    /\ bidx = 0

\* the state after create_db() and the fetch of branches.conf
Init ==
    /\ branches \in {[i \in 1..n |-> BranchName(i)] : n \in 0..MaxBranches}
    /\ ksource \in [SeqToSet(branches) -> TreeChoices]
    /\ pc = "get_tags"
    /\ tags = <<>>
    /\ Idle

Crash(e) == pc' = "crashed" /\ err' = e

Values(d) == [i \in 1..Len(d) |-> d[i][2]]
VTag(v) == Str(<<"v">> \o v)

\* line 342
GetTags ==
    /\ pc = "get_tags"
    /\ tags' = get_tags_from_ksource_tree(branches, ksource)
    /\ reported' = {b \in SeqToSet(branches) : LookupFails(ksource, b)}
    /\ pc' = "sort"
    /\ UNCHANGED <<call, branches, ksource, err, pure_tags, uniq_tags, tag_pairs, t_tags,
                   t_branches, t_commits, t_files, t_changes, t_backports, status,
                   collected, commits_per_branch, commits, bidx>>

\* lines 344-345
SortTags ==
    /\ pc = "sort"
    /\ IF SortRaises(Values(tags))
       THEN Crash("ValueError") /\ UNCHANGED pure_tags
       ELSE /\ pure_tags' = [i \in 1..Len(tags) |-> VTag(sorted(Values(tags))[i])]
            /\ pc' = "uniq"
            /\ UNCHANGED err
    /\ UNCHANGED <<call, branches, ksource, reported, tags, uniq_tags, tag_pairs, t_tags,
                   t_branches, t_commits, t_files, t_changes, t_backports, status,
                   collected, commits_per_branch, commits, bidx>>

\* line 346
UniqTags ==
    /\ pc = "uniq"
    /\ uniq_tags' = groupby(pure_tags)
    /\ pc' = "store_tags"
    /\ UNCHANGED <<call, branches, ksource, err, reported, tags, pure_tags, tag_pairs, t_tags,
                   t_branches, t_commits, t_files, t_changes, t_backports, status,
                   collected, commits_per_branch, commits, bidx>>

\* lines 348-349
StoreTags ==
    /\ pc = "store_tags"
    /\ IF UniqueInsertRaises(t_tags, uniq_tags)
       THEN Crash("IntegrityError: tags.name") /\ UNCHANGED <<t_tags, uniq_tags>>
       ELSE /\ t_tags' = t_tags \cup SeqToSet(uniq_tags)
            /\ uniq_tags' = Append(uniq_tags, MASTER)
            /\ pc' = "store_branches"
            /\ UNCHANGED err
    /\ UNCHANGED <<call, branches, ksource, reported, tags, pure_tags, tag_pairs,
                   t_branches, t_commits, t_files, t_changes, t_backports, status,
                   collected, commits_per_branch, commits, bidx>>

\* the rows store_branches_into_db inserts
BranchRows(d, ts) ==
    [i \in 1..Len(d) |-> [name |-> d[i][1], tag_id |-> Lookup(ts, VTag(d[i][2]))]]

\* line 350; branches.name is UNIQUE, branches.tag_id NOT NULL
StoreBranches ==
    /\ pc = "store_branches"
    /\ LET rows == BranchRows(tags, t_tags)
       IN  IF \/ \E i \in 1..Len(rows) : rows[i].tag_id = NULL
              \/ UniqueInsertRaises({b.name : b \in t_branches},
                                    [i \in 1..Len(rows) |-> rows[i].name])
           THEN Crash("IntegrityError: branches") /\ UNCHANGED t_branches
           ELSE /\ t_branches' = t_branches \cup SeqToSet(rows)
                /\ pc' = "snapshot"
                /\ UNCHANGED err
    /\ UNCHANGED <<call, branches, ksource, reported, tags, pure_tags, uniq_tags, tag_pairs,
                   t_tags, t_commits, t_files, t_changes, t_backports, status,
                   collected, commits_per_branch, commits, bidx>>

\* the tuples fetch_root_tree_files passes to store_changes_into_db
RootMany(tag) ==
    [i \in 1..Len(RootTree) |->
        [commit |-> BIG_BANG, score |-> <<>>, from |-> NULL, to |-> RootTree[i], tag |-> tag]]

\* line 356: fetch_root_tree_files(lrepo, uniq_tags[0])
Snapshot ==
    /\ pc = "snapshot"
    /\ LET fs == store_files_into_db(t_files, SeqToSet(RootTree))
           cs == t_commits \cup {BIG_BANG}
       IN  IF UniqueInsertRaises(t_commits, <<BIG_BANG>>)
           THEN /\ Crash("IntegrityError: commits.name")
                /\ t_files' = fs
                /\ UNCHANGED <<t_commits, t_changes>>
           ELSE /\ t_files' = fs
                /\ t_commits' = cs
                /\ t_changes' = store_changes_into_db(t_changes, RootMany(uniq_tags[1]),
                                                       cs, fs, t_tags)
                /\ pc' = "submit"
                /\ UNCHANGED err
    /\ UNCHANGED <<call, branches, ksource, reported, tags, pure_tags, uniq_tags, tag_pairs,
                   t_tags, t_branches, t_backports, status,
                   collected, commits_per_branch, commits, bidx>>

\* lines 358 and 361
Submit ==
    /\ pc = "submit"
    /\ tag_pairs' = prepare_tags_for_parallel_partition(uniq_tags)
    /\ status' = [i \in 1..Len(uniq_tags) |-> "pending"]
    /\ pc' = "collect"
    /\ UNCHANGED <<call, branches, ksource, err, reported, tags, pure_tags, uniq_tags,
                   t_tags, t_branches, t_commits, t_files, t_changes, t_backports,
                   collected, commits_per_branch, commits, bidx>>

Futures == DOMAIN status

Begin(i) == tag_pairs[i][1]
End(i) == tag_pairs[i][2]

\* line 202: subprocess.run(..., check=True) raises CalledProcessError; the
\* future keeps the exception
ListingFails(i) ==
    /\ pc \in {"collect", "aborting"}
    /\ i \in Futures
    /\ status[i] = "pending"
    /\ status' = [status EXCEPT ![i] = "listing_failed"]
    /\ UNCHANGED <<call, branches, ksource, pc, err, reported, tags, pure_tags, uniq_tags,
                   tag_pairs, t_tags, t_branches, t_commits, t_files, t_changes,
                   t_backports, collected, commits_per_branch, commits, bidx>>

\* lines 193-226 in a worker process: the listing is parsed and the commits
\* are stored, in one transaction that an IntegrityError rolls back
Between(i) ==
    /\ pc \in {"collect", "aborting"}
    /\ i \in Futures
    /\ status[i] = "pending"
    /\ LET cs == CommitsOf(ManyOf(Begin(i), End(i)))
       IN  IF \E c \in cs : c \in t_commits
           THEN /\ status' = [status EXCEPT ![i] = "store_failed"]
                /\ UNCHANGED t_commits
           ELSE /\ status' = [status EXCEPT ![i] = "done"]
                /\ t_commits' = t_commits \cup cs
    /\ UNCHANGED <<call, branches, ksource, pc, err, reported, tags, pure_tags, uniq_tags,
                   tag_pairs, t_tags, t_branches, t_files, t_changes,
                   t_backports, collected, commits_per_branch, commits, bidx>>

\* a variant of ResultRaises that swallows the exception of a failed task
ResultRaises_Never(st) == FALSE

\* line 363: f.result() re-raises the exception of a failed task
ResultRaises(st) == st # "done"

ErrorOf(st) ==
    IF st = "listing_failed" THEN "CalledProcessError"
    ELSE "IntegrityError: commits.name"

\* lines 362-365, one iteration: as_completed yields a finished future
Collect(i) ==
    /\ pc = "collect"
    /\ i \in Futures \ collected
    /\ status[i] # "pending"
    /\ collected' = collected \cup {i}
    /\ IF ResultRaises(status[i])
       THEN /\ pc' = "aborting"
            /\ err' = ErrorOf(status[i])
            /\ UNCHANGED <<t_files, t_changes>>
       ELSE LET many == ManyOf(Begin(i), End(i))
                fs   == store_files_into_db(t_files, FilesOf(many))
            IN  /\ t_files' = fs
                /\ IF ChangesRaise(many, t_commits)
                   THEN /\ pc' = "aborting"
                        /\ err' = "IntegrityError: changes.commit_id"
                        /\ UNCHANGED t_changes
                   ELSE /\ t_changes' = store_changes_into_db(t_changes, many,
                                                               t_commits, fs, t_tags)
                        /\ UNCHANGED <<pc, err>>
    /\ UNCHANGED <<call, branches, ksource, reported, tags, pure_tags, uniq_tags,
                   tag_pairs, t_tags, t_branches, t_commits,
                   t_backports, status, commits_per_branch, commits, bidx>>

\* a variant of Exhausted that leaves the loop after the first future
Exhausted_Any(done, all) == done # {}

\* as_completed(futures) is exhausted once every future was yielded
Exhausted(done, all) == done = all

\* lines 362 and 360: the loop ends and the executor shuts down
Join ==
    /\ pc = "collect"
    /\ Exhausted(collected, Futures)
    /\ pc' = "correlate"
    /\ UNCHANGED <<call, branches, ksource, err, reported, tags, pure_tags, uniq_tags,
                   tag_pairs, t_tags, t_branches, t_commits, t_files, t_changes,
                   t_backports, status, collected, commits_per_branch, commits, bidx>>

\* line 360 on an exception: the executor's exit waits for every task, then
\* the exception leaves main()
Abort ==
    /\ pc = "aborting"
    /\ \A i \in Futures : status[i] # "pending"
    /\ pc' = "crashed"
    /\ UNCHANGED <<call, branches, ksource, err, reported, tags, pure_tags, uniq_tags,
                   tag_pairs, t_tags, t_branches, t_commits, t_files, t_changes,
                   t_backports, status, collected, commits_per_branch, commits, bidx>>

\* get_commits()
get_commits(cs) == cs

\* lines 367-368
Correlate ==
    /\ pc = "correlate"
    /\ commits_per_branch' = get_commits_per_branch(branches, ksource)
    /\ commits' = get_commits(t_commits)
    /\ bidx' = 1
    /\ pc' = "backports"
    /\ UNCHANGED <<call, branches, ksource, err, reported, tags, pure_tags, uniq_tags,
                   tag_pairs, t_tags, t_branches, t_commits, t_files, t_changes,
                   t_backports, status, collected>>

\* line 370: [(h, branch) for h in hashes if h in commits]
RECURSIVE BackportsOf(_, _, _)
BackportsOf(hashes, branch, known) ==
    IF hashes = <<>> THEN <<>>
    ELSE (IF hashes[1] \in known THEN << <<hashes[1], branch>> >> ELSE <<>>)
         \o BackportsOf(Tail(hashes), branch, known)

\* lines 369-371, one iteration; the loop ends main()
StoreBackports ==
    /\ pc = "backports"
    /\ IF bidx > Len(branches)
       THEN /\ pc' = "done"
            /\ UNCHANGED <<err, t_backports, bidx>>
       ELSE LET branch == branches[bidx]
                many   == BackportsOf(commits_per_branch[branch], branch, commits)
            IN  IF BackportsRaise(many, t_commits, t_branches)
                THEN /\ Crash("IntegrityError: backports.branch_id")
                     /\ UNCHANGED <<t_backports, bidx>>
                ELSE /\ t_backports' = t_backports \o
                            [k \in 1..Len(many) |->
                                BackportRow(many[k], t_commits, t_branches)]
                     /\ bidx' = bidx + 1
                     /\ UNCHANGED <<pc, err>>
    /\ UNCHANGED <<call, branches, ksource, reported, tags, pure_tags, uniq_tags,
                   tag_pairs, t_tags, t_branches, t_commits, t_files, t_changes,
                   status, collected, commits_per_branch, commits>>

Next ==
    \/ GetTags
    \/ SortTags
    \/ UniqTags
    \/ StoreTags
    \/ StoreBranches
    \/ Snapshot
    \/ Submit
    \/ \E i \in Futures : ListingFails(i)
    \/ \E i \in Futures : Between(i)
    \/ \E i \in Futures : Collect(i)
    \/ Join
    \/ Abort
    \/ Correlate
    \/ StoreBackports

Spec == Init /\ [][Next]_vars

\* ---------------------------------------------------------------- the tag comparator alone

SortVersions == {V53, V53rc1, V531, V510rc1, V510}

\* any list of SRCVERSION values that get_tags_from_ksource_tree can return
InitSort ==
    /\ \E n \in 0..MaxSortLen :
          /\ branches = [i \in 1..n |-> BranchName(i)]
          /\ tags \in {[i \in 1..n |-> <<BranchName(i), f[i]>>] :
                          f \in [1..n -> SortVersions]}
    /\ ksource = <<>>
    /\ pc = "sort"
    /\ Idle

NextSort == SortTags \/ UniqTags \/ StoreTags

SpecSort == InitSort /\ [][NextSort]_vars

\* ---------------------------------------------------------------- the store functions alone

\* names handed to the store functions: paths (None included, as in `files`) and hashes
StorePaths == {"f0", "f1", NULL}
StoreHashes == {Hash(1), Hash(2)}

Batches(S) == UNION {[1..n -> S] : n \in 1..MaxBatch}

\* the database right after the create statements, before any insert
InitStore ==
    /\ branches = <<>>
    /\ ksource = <<>>
    /\ tags = <<>>
    /\ pc = "store"
    /\ Idle

\* store_files_into_db(many): insert or ignore, then commit
StoreFilesCall(many) ==
    /\ pc = "store"
    /\ call' = [fn |-> "store_files_into_db", arg |-> many, ret |-> <<>>]
    /\ t_files' = store_files_into_db(t_files, SeqToSet(many))
    /\ err' = ""
    /\ UNCHANGED <<branches, ksource, pc, reported, tags, pure_tags, uniq_tags, tag_pairs,
                   t_tags, t_branches, t_commits, t_changes, t_backports,
                   status, collected, commits_per_branch, commits, bidx>>

\* store_commits_into_db(many): plain insert; on IntegrityError nothing is committed
StoreCommitsCall(many) ==
    /\ pc = "store"
    /\ call' = [fn |-> "store_commits_into_db", arg |-> many, ret |-> <<>>]
    /\ IF UniqueInsertRaises(t_commits, many)
       THEN /\ err' = "IntegrityError: commits.name"
            /\ UNCHANGED t_commits
       ELSE /\ err' = ""
            /\ t_commits' = t_commits \cup SeqToSet(many)
    /\ UNCHANGED <<branches, ksource, pc, reported, tags, pure_tags, uniq_tags, tag_pairs,
                   t_tags, t_branches, t_files, t_changes, t_backports,
                   status, collected, commits_per_branch, commits, bidx>>

NextStore ==
    \/ \E many \in Batches(StorePaths) : StoreFilesCall(many)
    \/ \E many \in Batches(StoreHashes) : StoreCommitsCall(many)

SpecStore == InitStore /\ [][NextStore]_vars


\* ---------------------------------------------------------------- between() alone

\* the raw lines that one listed commit can carry
CommitChoices ==
    {<<>>,
     <<Raw(<<"A">>, "f1", NULL)>>,
     <<Raw(<<"D">>, "f1", NULL)>>,
     <<Raw(<<"D">>, "f0", NULL)>>,
     <<Raw(<<"R", "0", "9", "0">>, "f1", "f2")>>,
     <<Raw(<<"R", "1", "0", "0">>, "f0", "f1")>>,
     <<Raw(<<"M">>, "f0", NULL), Raw(<<"A">>, "f1", NULL)>>,
     <<Raw(<<"T">>, "f0", NULL),
       [Raw(<<"A">>, BLACKLIST, NULL) EXCEPT !.blacklisted = TRUE]>>}

\* the commits that `git log` lists for one range, newest first: distinct
\* commits of the repository, the root commit BIG_BANG (id 0) possibly among them
Histories ==
    UNION {{h \in [1..n -> [id : 0..MaxCommits, lines : CommitChoices]] :
               \A i, j \in 1..n : h[i].id = h[j].id => i = j} : n \in 0..MaxCommits}

\* stdout of the listing of history h, split at "\n"
RECURSIVE ListingOf(_)
ListingOf(h) ==
    IF h = <<>> THEN <<EmptyLine>>
    ELSE <<Hdr(h[1].id)>> \o h[1].lines \o ListingOf(Tail(h))

\* the upper tag of the range that the lone call of between() is given
EndTag == "v5.10"

InitExtract ==
    /\ call \in {[fn |-> "between", arg |-> h, ret |-> <<>>] : h \in Histories}
    /\ branches = <<>>
    /\ ksource = <<>>
    /\ tags = <<>>
    /\ pc = "between"
    /\ err = ""
    /\ reported = {}
    /\ pure_tags = <<>>
    /\ uniq_tags = <<>>
    /\ tag_pairs = <<>>
    /\ t_tags = {EndTag}
    /\ t_branches = {}
    /\ t_commits = {}
    /\ t_files = {}
    /\ t_changes = {}
    /\ t_backports = <<>>
    /\ status = <<>>
    /\ collected = {}
    /\ commits_per_branch = <<>>
    /\ commits = {}
    /\ bidx = 0

\* between(begin, end, lpath) on the listing of call.arg: `many` is returned
\* and its commits are stored
BetweenCall ==
    /\ pc = "between"
    /\ LET many == ParseLines(ListingOf(call.arg), "None", <<>>, EndTag)
       IN  /\ call' = [call EXCEPT !.ret = many]
           /\ t_commits' = t_commits \cup CommitsOf(many)
    /\ pc' = "returned"
    /\ UNCHANGED <<branches, ksource, err, reported, tags, pure_tags, uniq_tags, tag_pairs,
                   t_tags, t_branches, t_files, t_changes, t_backports,
                   status, collected, commits_per_branch, commits, bidx>>

\* lines 363-365 for the lone task: its files and changes are stored
CollectCall ==
    /\ pc = "returned"
    /\ LET fs == store_files_into_db(t_files, FilesOf(call.ret))
       IN  /\ t_files' = fs
           /\ t_changes' = store_changes_into_db(t_changes, call.ret, t_commits, fs, t_tags)
    /\ pc' = "stored"
    /\ UNCHANGED <<call, branches, ksource, err, reported, tags, pure_tags, uniq_tags,
                   tag_pairs, t_tags, t_branches, t_commits, t_backports,
                   status, collected, commits_per_branch, commits, bidx>>

NextExtract == BetweenCall \/ CollectCall

SpecExtract == InitExtract /\ [][NextExtract]_vars


\* ================================================================ properties

Finished(i) == i \in collected /\ status[i] = "done"
Stored(i) ==
    LET many == ManyOf(Begin(i), End(i))
    IN  /\ CommitsOf(many) \subseteq t_commits
        /\ (FilesOf(many) \ {NULL}) \subseteq t_files
        /\ \A k \in 1..Len(many) : \E ch \in t_changes :
              /\ ch.commit_id = many[k].commit
              /\ ch.from_id = many[k].from
              /\ ch.to_id = many[k].to
              /\ ch.score = many[k].score

\* X.Y-rcN and X.Y: a release candidate and the final release of one major.minor
IsRcOf(rc, fin) ==
    /\ Len(Split(fin)) = 2
    /\ Len(Split(rc)) = 3
    /\ Split(rc)[1] = Split(fin)[1]
    /\ Split(rc)[2] = Split(fin)[2]
    /\ StartsWithRc(Split(rc)[3])

IsPermutationOf(l, m) ==
    /\ Len(l) = Len(m)
    /\ NoDup(l)
    /\ SeqToSet(l) = SeqToSet(m)

\* C1: once the versions are sorted, every release candidate X.Y-rcN stands
\* before the final release X.Y of the same major.minor, and any permutation of
\* 5.3, 5.3.1, 5.10-rc1, 5.10 is sorted to exactly that order.
C1_RcBeforeFinal ==
    pc = "uniq" =>
        /\ \A rc, fin \in SeqToSet(Values(tags)) :
              IsRcOf(rc, fin) =>
                 \A i, j \in 1..Len(pure_tags) :
                    pure_tags[i] = VTag(rc) /\ pure_tags[j] = VTag(fin) => i < j
        /\ IsPermutationOf(Values(tags), <<V53, V531, V510rc1, V510>>) =>
              pure_tags = <<"v5.3", "v5.3.1", "v5.10-rc1", "v5.10">>

\* C2: every row of view added comes from an addition (from NULL, to the
\* file), every row of removed from a deletion (from the file, to NULL), every
\* row of renamed from a rename (both set), for the base and the backport source.
C2_ViewsSplitByKind ==
    /\ \A r \in added : \E ch \in t_changes :
          ch.commit_id = r.sha /\ ch.from_id = NULL /\ ch.to_id = r.file
    /\ \A r \in removed : \E ch \in t_changes :
          ch.commit_id = r.sha /\ ch.from_id = r.file /\ ch.to_id = NULL
    /\ \A r \in renamed : \E ch \in t_changes :
          /\ ch.commit_id = r.sha
          /\ ch.from_id = r.file /\ ch.to_id = r.new_file
          /\ r.file # NULL /\ r.new_file # NULL

\* C3: every Change row and every Backport row refers to a Commit of the
\* Commit set, and no insert of Changes or Backports ever finds its commit
\* missing (the commits of a work unit are stored before its Changes).
C3_CommitsPreExist ==
    /\ \A ch \in t_changes : ch.commit_id \in t_commits
    /\ \A k \in 1..Len(t_backports) : t_backports[k].commit_id \in t_commits
    /\ err \notin {"IntegrityError: changes.commit_id", "IntegrityError: backports.commit_id"}

C3_Witness ==
    /\ Len(t_backports) > 0
    /\ \E ch \in t_changes : ch.commit_id # BIG_BANG

\* C4: the commit set is read and Backports are inserted only once the
\* snapshot and every submitted task have completed and their Commit, File and
\* Change rows are stored.
C4_JoinBarrier ==
    (pc \in {"backports", "done"} \/ bidx > 0 \/ commits # {} \/ Len(t_backports) > 0) =>
        /\ Futures # {}
        /\ BIG_BANG \in t_commits
        /\ \A i \in Futures : Finished(i) /\ Stored(i)

C4_Witness ==
    /\ pc = "done"
    /\ Len(t_backports) > 0
    /\ Cardinality(Futures) >= 3

\* a blob qualifies for commit c: its first line carrying a Git-commit
\* reference names an object that resolves to c, and c was in the commit set read
Qualifies(blob, c) ==
    \E j \in 1..Len(blob) :
        /\ blob[j].kind = "ref"
        /\ \A k \in 1..(j - 1) : blob[k].kind # "ref"
        /\ \E i \in Commits : blob[j].id \in {Abbrev(i), Hash(i)} /\ Hash(i) = c
        /\ c \in commits

RowsFor(c, b) ==
    {k \in 1..Len(t_backports) :
        t_backports[k].commit_id = c /\ t_backports[k].branch_id = b}

\* C5: after a completed run the Backports of a branch are exactly one
\* (c, b) per patch blob of b whose first matching line resolves to c with c in
\* the commit set read; a blob whose first matching line does not resolve, or
\* without a matching line, gives none.
C5_FirstMatchCorrelation ==
    pc = "done" =>
        \A b \in SeqToSet(branches) : \A i \in Commits :
            Cardinality(RowsFor(Hash(i), b)) =
                Cardinality({k \in 1..Len(ksource[b].patches) :
                                Qualifies(ksource[b].patches[k], Hash(i))})

C5_Witness ==
    /\ pc = "done"
    /\ \E b \in SeqToSet(branches) :
          /\ RowsFor(Hash(1), b) # {}
          /\ \E k \in 1..Len(ksource[b].patches) :
                LET blob == ksource[b].patches[k]
                IN  /\ Len(blob) >= 2
                    /\ blob[1].kind = "ref" /\ ~revparse_single(blob[1].id).ok
                    /\ blob[2].kind = "ref" /\ revparse_single(blob[2].id).id \in commits

\* C6: every Change row references a stored Tag, the upper tag of the window
\* of the work unit it was inserted for (the snapshot and every interval, the
\* final window included).
C6_ChangeCarriesWindowTag ==
    /\ \A ch \in t_changes : ch.tag_id # NULL /\ ch.tag_id \in t_tags
    /\ \A i \in Futures : Finished(i) /\ pc # "aborting" =>
          \A k \in 1..Len(ManyOf(Begin(i), End(i))) : \E ch \in t_changes :
              /\ ch.commit_id = ManyOf(Begin(i), End(i))[k].commit
              /\ ch.to_id = ManyOf(Begin(i), End(i))[k].to
              /\ ch.tag_id = End(i)

\* the store after the schedule in which each task runs and is collected
\* before the next one starts (once a task has failed, the later ones still
\* run and store their commits, and nothing else is stored)
RECURSIVE InOrder(_, _)
InOrder(i, db) ==
    IF i > Len(tag_pairs) THEN db
    ELSE LET many == ManyOf(Begin(i), End(i))
             fs   == store_files_into_db(db.files, FilesOf(many))
         IN  IF CommitsOf(many) \cap db.commits # {}
             THEN InOrder(i + 1, [db EXCEPT !.ok = FALSE])
             ELSE IF ~db.ok
             THEN InOrder(i + 1, [db EXCEPT !.commits = @ \cup CommitsOf(many)])
             ELSE InOrder(i + 1,
                     [db EXCEPT !.commits = @ \cup CommitsOf(many),
                                !.files = fs,
                                !.changes = store_changes_into_db(@, many,
                                    db.commits \cup CommitsOf(many), fs, t_tags)])

AfterSnapshot ==
    [commits |-> {BIG_BANG}, files |-> SeqToSet(RootTree), ok |-> TRUE,
     changes |-> store_changes_into_db({}, RootMany(uniq_tags[1]), {BIG_BANG},
                                       SeqToSet(RootTree), t_tags)]

\* C7: with every history listing delivered, the content the store ends with
\* does not depend on the order in which the tasks complete and are stored: it
\* is the content that the in-order schedule ends with.
C7_OrderIndependent ==
    (/\ pc \in {"done", "crashed"}
     /\ Futures # {}
     /\ \A i \in Futures : status[i] # "listing_failed") =>
        /\ t_commits = InOrder(1, AfterSnapshot).commits
        /\ t_files = InOrder(1, AfterSnapshot).files
        /\ t_changes = InOrder(1, AfterSnapshot).changes

\* C8: when a history listing has failed and the run has halted, the store
\* holds no Commit, File or Change row contributed by the tasks of the run.
C8_NoPartialCommit ==
    (pc = "crashed" /\ err = "CalledProcessError") =>
        /\ t_commits \subseteq {BIG_BANG}
        /\ t_files \subseteq SeqToSet(RootTree)
        /\ \A ch \in t_changes : ch.commit_id = BIG_BANG

ListingFailureObserved == \E i \in collected : status[i] = "listing_failed"

\* C9: a task whose listing failed stays failed (it is never run again), and
\* from the step in which the coordinator takes a failed listing from
\* as_completed on, no File, Change or Backport row is stored and the
\* correlation never starts.
C9_FailFast ==
    [][/\ \A i \in Futures : status[i] = "listing_failed" =>
             i \in DOMAIN status' /\ status'[i] = "listing_failed"
       /\ ListingFailureObserved' =>
             /\ t_files' = t_files
             /\ t_changes' = t_changes
             /\ t_backports' = <<>>
             /\ commits' = {}
             /\ pc' \in {"aborting", "crashed"}]_vars

C9_Witness ==
    /\ pc = "crashed"
    /\ ListingFailureObserved
    /\ \E j \in Futures \ collected : status[j] = "done"
    /\ \E b \in SeqToSet(branches) : HashesOf(ksource[b].patches) # <<>>

\* C10: a branch without rpm/config.sh, or whose rpm/config.sh has no
\* SRCVERSION= line, is reported and gives no entry of the branch-to-tag
\* result and no Branch row, and the run is not stopped by it.
NoSrcversion(b) ==
    \/ ~ksource[b].has_config
    \/ \A k \in 1..Len(ksource[b].config) : ksource[b].config[k].key # "SRCVERSION"

C10_SoftTagFailure ==
    /\ pc # "get_tags" =>
          \A b \in SeqToSet(branches) : NoSrcversion(b) =>
              /\ b \in reported
              /\ \A k \in 1..Len(tags) : tags[k][1] # b
              /\ \A r \in t_branches : r.name # b
    /\ err # "ValueError"

\* C11: re-inserting File paths that are all already stored leaves the File set
\* and its row count as they were and raises nothing; inserting a batch holding
\* an already stored Commit hash raises and leaves the Commit set as it was
C11_IdempotentStorage ==
    [][/\ (/\ call'.fn = "store_files_into_db"
           /\ SeqToSet(call'.arg) \subseteq t_files)
          => /\ t_files' = t_files
             /\ Cardinality(t_files') = Cardinality(t_files)
             /\ err' = ""
       /\ (/\ call'.fn = "store_commits_into_db"
           /\ SeqToSet(call'.arg) \cap t_commits # {})
          => /\ err' = "IntegrityError: commits.name"
             /\ t_commits' = t_commits]_vars

\* a stored hash was inserted again and rejected, with files stored as well
C11_Witness ==
    /\ call.fn = "store_commits_into_db"
    /\ SeqToSet(call.arg) \subseteq t_commits
    /\ err = "IntegrityError: commits.name"
    /\ t_files # {}

\* the commits and the paths that work unit i discovers
CommitsFound(i) == CommitsOf(ManyOf(Begin(i), End(i)))
PathsFound(i) == FilesOf(ManyOf(Begin(i), End(i))) \ {NULL}

\* C12: when two work units discover the same File path or the same Commit
\* hash, neither of the two tasks fails and the build does not fail on the
\* repeated name
C12_DuplicatesAbsorbed ==
    \A i, j \in Futures :
        (/\ i # j
         /\ \/ CommitsFound(i) \cap CommitsFound(j) # {}
            \/ PathsFound(i) \cap PathsFound(j) # {})
        => /\ status[i] # "store_failed"
           /\ status[j] # "store_failed"
           /\ err # "IntegrityError: commits.name"

\* ---- trees, for comparing a window with the diff of its two end trees

\* a tree is a set of entries: a path and the identity of the content that a
\* rename carries along (the path and the commit that added it)
BaseTree == {[path |-> "f0", id |-> <<"f0", 0>>]}
PathsIn(tree) == {e.path : e \in tree}
IdsIn(tree) == {e.id : e \in tree}

\* a raw line of commit c can only name what the tree before it allows
ValidLine(tree, l) ==
    CASE l.st[1] = "A" -> l.p1 \notin PathsIn(tree)
      [] l.st[1] = "R" -> l.p1 \in PathsIn(tree) /\ l.p2 \notin PathsIn(tree)
      [] OTHER -> l.p1 \in PathsIn(tree)

ApplyLine(tree, l, c) ==
    CASE l.st[1] = "A" -> tree \cup {[path |-> l.p1, id |-> <<l.p1, c>>]}
      [] l.st[1] = "D" -> {e \in tree : e.path # l.p1}
      [] l.st[1] = "R" -> {e \in tree : e.path # l.p1}
                             \cup {[path |-> l.p2, id |-> e.id] :
                                      e \in {x \in tree : x.path = l.p1}}
      [] OTHER -> tree

RECURSIVE ApplyLines(_, _, _)
ApplyLines(tree, ls, c) ==
    IF ls = <<>> THEN tree
    ELSE ApplyLines(ApplyLine(tree, ls[1], c), Tail(ls), c)

RECURSIVE ValidLines(_, _, _)
ValidLines(tree, ls, c) ==
    \/ ls = <<>>
    \/ /\ ValidLine(tree, ls[1])
       /\ ValidLines(ApplyLine(tree, ls[1], c), Tail(ls), c)

\* the tree at the upper tag: the commits of h applied oldest first
RECURSIVE TreeAfter(_)
TreeAfter(h) ==
    IF h = <<>> THEN BaseTree
    ELSE ApplyLines(TreeAfter(Tail(h)), h[1].lines, h[1].id)

RECURSIVE ValidHistory(_)
ValidHistory(h) ==
    \/ h = <<>>
    \/ /\ ValidHistory(Tail(h))
       /\ ValidLines(TreeAfter(Tail(h)), h[1].lines, h[1].id)

\* h is a linear history between two tags: newest first, the root commit not in it
LinearRange(h) ==
    /\ \A i \in 1..Len(h) : h[i].id # 0
    /\ \A i \in 1..(Len(h) - 1) : h[i].id > h[i + 1].id
    /\ ValidHistory(h)

\* the facts <<from, to>> of diffing tree ta against tree tb with the
\* classification of between(): A, D, R; the BLACKLIST path is left out
TreeDiff(ta, tb) ==
    ({<<NULL, e.path>> : e \in {x \in tb : x.path \notin PathsIn(ta) /\ x.id \notin IdsIn(ta)}}
     \cup {<<e.path, NULL>> : e \in {x \in ta : x.path \notin PathsIn(tb) /\ x.id \notin IdsIn(tb)}}
     \cup {<<p[1].path, p[2].path>> :
              p \in {q \in ta \X tb : /\ q[1].id = q[2].id
                                      /\ q[1].path # q[2].path
                                      /\ q[1].path \notin PathsIn(tb)
                                      /\ q[2].path \notin PathsIn(ta)}})
    \ {<<NULL, BLACKLIST>>}

FactsOf(many) == {<<many[i].from, many[i].to>> : i \in 1..Len(many)}

\* C13: the add/delete/rename facts that between() returns for the window of
\* two adjacent tags are the facts of diffing the tree at the lower tag
\* against the tree at the upper tag
C13_WindowEqualsTreeDiff ==
    (pc = "returned" /\ LinearRange(call.arg))
    => FactsOf(call.ret) = TreeDiff(BaseTree, TreeAfter(call.arg))

\* C14: workers never write to the store: every stored Commit is the root
\* commit of the snapshot or was found by a task whose result the
\* coordinating process has already collected
C14_SingleWriter ==
    t_commits \subseteq {BIG_BANG} \cup UNION {CommitsFound(i) : i \in collected}

\* the ordered unique-tag sequence t0..t(n-1): uniq_tags without the trailing
\* pseudo-tag
StoredTagsSeq == SubSeq(uniq_tags, 1, Len(uniq_tags) - 1)

\* C15: for n >= 1 tags the submitted descriptors are <<"", t0>> and one
\* <<t(i-1), t(i)>> per consecutive pair, n in all, none bounded by the
\* pseudo-tag, and each tag is the upper bound of exactly one descriptor
C15_RangePartitioning ==
    (status # <<>> /\ Len(StoredTagsSeq) >= 1)
    => LET ts == StoredTagsSeq
           n  == Len(ts)
       IN  /\ Len(tag_pairs) = n
           /\ Len(status) = n
           /\ tag_pairs[1] = <<"", ts[1]>>
           /\ \A i \in 2..n : tag_pairs[i] = <<ts[i - 1], ts[i]>>
           /\ \A i \in 1..Len(tag_pairs) : MASTER \notin {tag_pairs[i][1], tag_pairs[i][2]}
           /\ \A k \in 1..n :
                 Cardinality({i \in 1..Len(tag_pairs) : tag_pairs[i][2] = ts[k]}) = 1

\* C16: the sorted and collapsed sequence holds every distinct version of the
\* branches exactly once, and the strict insert of Tags does not fail
C16_UniqueTagSequence ==
    /\ pc = "store_tags"
       => /\ NoDup(uniq_tags)
          /\ SeqToSet(uniq_tags) = {VTag(v) : v \in SeqToSet(Values(tags))}
    /\ err # "IntegrityError: tags.name"

\* ---- what the extractor should emit, computed from the listed commits

\* the Change of raw line l of commit c
ExpectedRow(l, c) ==
    [commit |-> Hash(c),
     score |-> IF l.st[1] = "R" THEN <<IntOf(Tail(l.st))>> ELSE <<>>,
     from |-> IF l.st[1] = "A" THEN NULL ELSE l.p1,
     to |-> IF l.st[1] = "A" THEN l.p1 ELSE IF l.st[1] = "R" THEN l.p2 ELSE NULL,
     tag |-> EndTag]

\* one Change per A, D or R line of commit c, in order; with `policy` the
\* lines of the excluded path give none
RECURSIVE ExpectedOfLines(_, _, _)
ExpectedOfLines(ls, c, policy) ==
    IF ls = <<>> THEN <<>>
    ELSE (IF ls[1].st[1] \in {"A", "D", "R"} /\ ~(policy /\ ls[1].blacklisted)
          THEN <<ExpectedRow(ls[1], c)>> ELSE <<>>)
         \o ExpectedOfLines(Tail(ls), c, policy)

\* the Changes of history h in listing order; with `policy` the listing ends
\* at the root commit
RECURSIVE ExpectedOf(_, _)
ExpectedOf(h, policy) ==
    IF h = <<>> \/ (policy /\ h[1].id = 0) THEN <<>>
    ELSE ExpectedOfLines(h[1].lines, h[1].id, policy) \o ExpectedOf(Tail(h), policy)

\* 'C1 adds A, C2 renames A to B', newest first
ExampleHistory ==
    <<[id |-> 2, lines |-> <<Raw(<<"R", "0", "9", "0">>, "f1", "f2")>>],
      [id |-> 1, lines |-> <<Raw(<<"A">>, "f1", NULL)>>]>>

ExampleHolds ==
    (call.arg = ExampleHistory /\ pc = "stored")
    => /\ call.ret = <<[commit |-> "c2", score |-> <<90>>, from |-> "f1", to |-> "f2",
                        tag |-> EndTag],
                       [commit |-> "c1", score |-> <<>>, from |-> NULL, to |-> "f1",
                        tag |-> EndTag]>>
       /\ t_files = {"f1", "f2"}
       /\ Cardinality(t_changes) = 2

AtOrAfterBoundary(h) ==
    {k \in 1..Len(h) : \E j \in 1..k : h[j].id = 0}

\* C18: no Change is emitted, and no Commit stored, for the root boundary
\* commit or for any commit listed after its header
C18_RootBoundary ==
    pc \in {"returned", "stored"}
    => \A k \in AtOrAfterBoundary(call.arg) :
          /\ Hash(call.arg[k].id) \notin CommitsOf(call.ret)
          /\ Hash(call.arg[k].id) \notin t_commits
          /\ \A ch \in t_changes : ch.commit_id # Hash(call.arg[k].id)

\* a listing was parsed whose first header is the root commit, with an A, D
\* or R line of its own and one on a commit listed after it
C18_Witness ==
    /\ pc = "stored"
    /\ Len(call.arg) = 2
    /\ call.arg[1].id = 0
    /\ \A k \in 1..2 : \E n \in 1..Len(call.arg[k].lines) :
          call.arg[k].lines[n].st[1] \in {"A", "D", "R"}
    /\ call.ret = <<>>

\* C19: every Backport row refers to a stored Branch, and the Backports of a
\* branch that tag discovery skipped are not inserted and do not end the run
C19_BackportBranchIntegrity ==
    /\ \A k \in 1..Len(t_backports) :
          t_backports[k].branch_id \in {b.name : b \in t_branches}
    /\ err # "IntegrityError: backports.branch_id"

\* commit i has no A, D or R line (the excluded path aside)
NoChangeLine(i) ==
    \A n \in 1..Len(RawLines(i)) :
        RawLines(i)[n].st[1] \notin {"A", "D", "R"} \/ RawLines(i)[n].blacklisted

HasChange(c) == \E ch \in t_changes : ch.commit_id = c

\* C20: once every task has been stored, every Commit row is referenced by a
\* Change row and a commit without an A, D or R line is not a Commit row; a
\* Backport exists only for a commit that has a Change
C20_CommitsProduceChanges ==
    /\ pc \in {"correlate", "backports", "done"}
       => /\ \A c \in t_commits : HasChange(c)
          /\ \A i \in Commits : NoChangeLine(i) => Hash(i) \notin t_commits
    /\ \A k \in 1..Len(t_backports) : HasChange(t_backports[k].commit_id)

\* the run ended with Backports stored, and a branch has a patch that refers
\* to commit 4, which changed no file and is not a Commit row
C20_Witness ==
    /\ pc = "done"
    /\ Len(t_backports) > 0
    /\ NoChangeLine(4)
    /\ Hash(4) \notin t_commits
    /\ \E b \in DOMAIN commits_per_branch : Hash(4) \in SeqToSet(commits_per_branch[b])

====
